---- MODULE Spec2Model ----
(***************************************************************************)
(* A model of src/index.js: the HTTP transport binding.                    *)
(*                                                                         *)
(*   HTTPServer  - the per-request callback (serverCallback) installed by  *)
(*                 listen: body accumulation, the connect / receive /      *)
(*                 processMessage / respond sequence, the catch block.     *)
(*   HTTPClient  - send (option merging, the response callback and its     *)
(*                 data / end / error handlers, the request error handler) *)
(*                 and disconnect.                                         *)
(*                                                                         *)
(* Bytes and characters are integers: a Buffer is a sequence of bytes, a   *)
(* JavaScript string a sequence of code points.  `data += chunk` converts  *)
(* the Buffer with Buffer.prototype.toString (UTF-8 decoding, chunk by     *)
(* chunk) and res.end(string) encodes the string as UTF-8.                 *)
(***************************************************************************)
EXTENDS Integers, Sequences, FiniteSets, TLC

VARIABLES
  \* ---- HTTPServer, one entry per inbound exchange
  wire,       \* chunks the peer still has to deliver on the request stream
  delivered,  \* chunks already handed to the 'data' listener, in order
  data,       \* serverCallback's `data` string
  sphase,     \* where the exchange stands
  res,        \* the http.ServerResponse of the exchange
  strace,     \* what happened in the exchange, in order
  \* ---- HTTPClient
  copts,      \* this.options
  rwire,      \* per call: response chunks the server still has to deliver
  rdelivered, \* per call: chunks already handed to the 'data' listener, in order
  cphase,     \* per call: where the call stands
  reqopts,    \* per call: the requestOptions send was called with
  sendopts,   \* per call: the `options` object built by send
  transport,  \* per call: the module send picked (http or https)
  responseData, \* per call: the `responseData` string
  fut,        \* per call: the promise returned by send
  ctrace,     \* per call: what happened in the call, in order
  connection, \* this.connection (0 is null, otherwise the call whose socket it is)
  sock,       \* per call: what has been done to req.socket
  dtrace,     \* what the disconnect() invocations did, in order
  \* ---- HTTPServer: listen and shutdown
  ssl,        \* this.config.ssl: "none", or whether its key and cert files can be read
  server,     \* this.server (0 is null, otherwise the listen call that made the listener)
  lstate,     \* per listen call: the state of the listener it created
  lkind,      \* per listen call: the module that created the listener (http or https)
  errh,       \* per listener: the listen calls whose 'error' listener is on it, in order
  lfut,       \* per listen call: the promise returned by listen
  shut,       \* where shutdown() stands
  ltrace,     \* per listen call: what the call and its listener did, in order;
              \* under 0: what shutdown() did
  via,        \* per exchange: the listener that accepted its connection (0: none)
  last        \* the handler that ran last

svars == <<wire, delivered, data, sphase, res, strace>>
cvars == <<copts, rwire, rdelivered, cphase, reqopts, sendopts, transport, responseData, fut, ctrace,
           connection, sock, dtrace>>
lvars == <<ssl, server, lstate, lkind, errh, lfut, shut, ltrace, via>>
vars == <<svars, cvars, lvars, last>>

----------------------------------------------------------------------------
\* Bounds of the model

NumExch == 2
NumCalls == 2
MaxBody == 3
MaxAppWrites == 1
MaxResBody == 2
MaxDisconnects == 2
MaxListens == 2
MaxListenerErrors == 1

Exch == 1..NumExch
Call == 1..NumCalls
Lst == 1..MaxListens

\* 'a', and the two bytes of the UTF-8 form of U+00E9
ByteAlphabet == {97, 195, 169}

----------------------------------------------------------------------------
\* Strings and Buffers

RECURSIVE Flatten(_)
Flatten(ss) == IF ss = <<>> THEN <<>> ELSE Head(ss) \o Flatten(Tail(ss))

\* Buffer.prototype.toString(): UTF-8 decoding of one Buffer (one- and two-byte
\* forms; a byte that starts no well-formed sequence becomes U+FFFD).
RECURSIVE BufferToString(_)
BufferToString(b) ==
  IF b = <<>> THEN <<>>
  ELSE LET h == Head(b) IN
    IF h < 128 THEN <<h>> \o BufferToString(Tail(b))
    ELSE IF h \in 194..223 /\ Len(b) >= 2 /\ b[2] \in 128..191
      THEN <<(h % 32) * 64 + (b[2] % 64)>> \o BufferToString(SubSeq(b, 3, Len(b)))
      ELSE <<65533>> \o BufferToString(Tail(b))

\* The UTF-8 encoding of a string, as written by res.end(string).
Utf8Char(c) ==
  IF c < 128 THEN <<c>>
  ELSE IF c < 2048 THEN <<192 + (c \div 64), 128 + (c % 64)>>
  ELSE <<224 + (c \div 4096), 128 + ((c \div 64) % 64), 128 + (c % 64)>>

RECURSIVE Utf8Encode(_)
Utf8Encode(s) == IF s = <<>> THEN <<>> ELSE Utf8Char(Head(s)) \o Utf8Encode(Tail(s))

\* `data += chunk` (line 34) and `responseData += chunk` (line 187)
AppendChunk(str, chunk) == str \o BufferToString(chunk)

\* 'Internal Server Error'
InternalServerError ==
  <<73, 110, 116, 101, 114, 110, 97, 108, 32, 83, 101, 114, 118, 101, 114, 32,
    69, 114, 114, 111, 114>>

\* What an application's processMessage may hand back or write: 'pong', 'ok'
Pong == <<112, 111, 110, 103>>
AppChunk == <<111, 107>>

RECURSIVE SeqsUpTo(_, _)
SeqsUpTo(S, n) ==
  IF n = 0 THEN {<<>>}
  ELSE LET shorter == SeqsUpTo(S, n - 1) IN
    shorter \cup {<<x>> \o s : x \in S, s \in {t \in shorter : Len(t) = n - 1}}

\* Every way of cutting a Buffer into non-empty chunks
RECURSIVE Splits(_)
Splits(b) ==
  IF b = <<>> THEN {<<>>}
  ELSE UNION {{<<SubSeq(b, 1, k)>> \o r : r \in Splits(SubSeq(b, k + 1, Len(b)))}
              : k \in 1..Len(b)}

\* The request bodies a peer may send, each with every chunking of it
RequestStreams == UNION {Splits(b) : b \in SeqsUpTo(ByteAlphabet, MaxBody)}

----------------------------------------------------------------------------
\* JavaScript values handed to handlers

StrV(s) == [type |-> "string", s |-> s]
ObjV == [type |-> "object", s |-> <<>>]
UndefV == [type |-> "undefined", s |-> <<>>]
NumV(n) == [type |-> "number", s |-> <<n>>]

Ev(op, tag, v) == [op |-> op, tag |-> tag, val |-> v]

Ops(tr) == {tr[i].op : i \in 1..Len(tr)}
Count(tr, op) == Cardinality({i \in 1..Len(tr) : tr[i].op = op})
\* the first place of op in tr, 0 when it has none
First(tr, op) ==
  IF op \in Ops(tr) THEN CHOOSE i \in 1..Len(tr) : tr[i].op = op /\ \A j \in 1..(i - 1) : tr[j].op # op
  ELSE 0
Before(tr, a, b) == First(tr, a) # 0 /\ First(tr, a) < First(tr, b)

----------------------------------------------------------------------------
\* http.ServerResponse

NewResponse ==
  [statusCode |-> 200, headersSent |-> FALSE, wireStatus |-> 0, body |-> <<>>,
   finished |-> FALSE, writeAfterEnd |-> FALSE]

\* res.write(bytes): the head goes out with the status code of that moment
ResWrite(r, bytes) ==
  IF r.finished THEN [r EXCEPT !.writeAfterEnd = TRUE]
  ELSE [r EXCEPT !.headersSent = TRUE,
                 !.wireStatus = IF r.headersSent THEN r.wireStatus ELSE r.statusCode,
                 !.body = r.body \o bytes]

\* res.end(bytes): on a finished response nothing more goes out
ResEnd(r, bytes) ==
  IF r.finished THEN [r EXCEPT !.writeAfterEnd = (bytes # <<>>) \/ r.writeAfterEnd]
  ELSE [r EXCEPT !.headersSent = TRUE,
                 !.wireStatus = IF r.headersSent THEN r.wireStatus ELSE r.statusCode,
                 !.body = r.body \o bytes,
                 !.finished = TRUE]

----------------------------------------------------------------------------
\* HTTPServer: serverCallback

\* serverCallback(req, res) is invoked: `let data = ''`, the listeners are set
Accept(e) ==
  /\ sphase[e] = "arriving"
  /\ sphase' = [sphase EXCEPT ![e] = "reading"]
  /\ data' = [data EXCEPT ![e] = <<>>]
  /\ last' = [act |-> "accept", id |-> e]
  /\ UNCHANGED <<wire, delivered, res, strace, cvars, lvars>>

\* req.on('data', ...)
ReqData(e) ==
  /\ sphase[e] = "reading"
  /\ wire[e] # <<>>
  /\ data' = [data EXCEPT ![e] = AppendChunk(data[e], Head(wire[e]))]
  /\ delivered' = [delivered EXCEPT ![e] = Append(delivered[e], Head(wire[e]))]
  /\ wire' = [wire EXCEPT ![e] = Tail(wire[e])]
  /\ last' = [act |-> "reqData", id |-> e]
  /\ UNCHANGED <<sphase, res, strace, cvars, lvars>>

\* EndListenerTrace without the await on processMessage
EndListenerTraceNoAwait(e) ==
  <<Ev("end", "", UndefV),
    Ev("connect", "", UndefV),
    Ev("receive", "", StrV(data[e])),
    Ev("processMessage", "", StrV(data[e])),
    Ev("respond", "", UndefV)>>

\* EndListenerTrace with call('receive') ahead of handleConnection
EndListenerTraceSwapped(e) ==
  <<Ev("end", "", UndefV),
    Ev("receive", "", StrV(data[e])),
    Ev("connect", "", UndefV),
    Ev("processMessage", "", StrV(data[e]))>>

\* What the 'end' listener does up to its await: handleConnection, call('receive'),
\* and the call of processMessage
EndListenerTrace(e) ==
  <<Ev("end", "", UndefV),
    Ev("connect", "", UndefV),
    Ev("receive", "", StrV(data[e])),
    Ev("processMessage", "", StrV(data[e]))>>

\* req.on('end', ...) up to `await self.processMessage(...)`
ReqEnd(e) ==
  /\ sphase[e] = "reading"
  /\ wire[e] = <<>>
  /\ strace' = [strace EXCEPT ![e] = strace[e] \o EndListenerTrace(e)]
  /\ sphase' = [sphase EXCEPT ![e] = "awaiting"]
  /\ last' = [act |-> "reqEnd", id |-> e]
  /\ UNCHANGED <<wire, delivered, data, res, cvars, lvars>>

\* StreamErrorTrace with the tag of the catch block
StreamErrorTraceAsHandler == <<Ev("error", "requestHandler", UndefV)>>

\* Lines 57-58: call('error', err, 'requestError') and nothing else
StreamErrorTrace == <<Ev("error", "requestError", UndefV)>>

\* req.on('error', ...): the stream fails before its end
ReqStreamError(e) ==
  /\ sphase[e] = "reading"
  /\ strace' = [strace EXCEPT ![e] = strace[e] \o StreamErrorTrace]
  /\ sphase' = [sphase EXCEPT ![e] = "aborted"]
  /\ last' = [act |-> "reqStreamError", id |-> e]
  /\ UNCHANGED <<wire, delivered, data, res, cvars, lvars>>

\* The application, inside processMessage, writes to the response it was given
AppWrite(e) ==
  /\ sphase[e] = "awaiting"
  /\ ~res[e].finished
  /\ Count(strace[e], "appWrite") < MaxAppWrites
  /\ res' = [res EXCEPT ![e] = ResWrite(res[e], Utf8Encode(AppChunk))]
  /\ strace' = [strace EXCEPT ![e] = Append(strace[e], Ev("appWrite", "", StrV(AppChunk)))]
  /\ last' = [act |-> "appWrite", id |-> e]
  /\ UNCHANGED <<wire, delivered, data, sphase, cvars, lvars>>

\* The application, inside processMessage, ends the response it was given
AppEnd(e) ==
  /\ sphase[e] = "awaiting"
  /\ ~res[e].finished
  /\ res' = [res EXCEPT ![e] = ResEnd(res[e], <<>>)]
  /\ strace' = [strace EXCEPT ![e] = Append(strace[e], Ev("appEnd", "", UndefV))]
  /\ last' = [act |-> "appEnd", id |-> e]
  /\ UNCHANGED <<wire, delivered, data, sphase, cvars, lvars>>

\* What processMessage may resolve with: the body it was given, another string,
\* a value that is no string, nothing
ReturnValues(e) == {StrV(data[e]), StrV(Pong), ObjV, UndefV}

\* AfterResolveTrace without the `responseData !== undefined` test
AfterResolveTraceNoTest(v) ==
  IF v.type = "string" THEN <<Ev("respond", "", v), Ev("resEnd", "", v)>>
  ELSE <<Ev("respond", "", v)>>

\* Lines 42-48 on a returned value v: the binding's steps, and the response after them
AfterResolveTrace(v) ==
  IF v.type = "undefined" THEN <<>>
  ELSE IF v.type = "string" THEN <<Ev("respond", "", v), Ev("resEnd", "", v)>>
  ELSE <<Ev("respond", "", v)>>

AfterResolveRes(r, v) ==
  IF v.type = "string" THEN ResEnd(r, Utf8Encode(v.s)) ELSE r

\* processMessage's promise resolves with v and the 'end' listener runs on
PmResolve(e, v) ==
  /\ sphase[e] = "awaiting"
  /\ strace' = [strace EXCEPT ![e] =
                  (strace[e] \o <<Ev("resolved", "", v)>>) \o AfterResolveTrace(v)]
  /\ res' = [res EXCEPT ![e] = AfterResolveRes(res[e], v)]
  /\ sphase' = [sphase EXCEPT ![e] = "done"]
  /\ last' = [act |-> "pmResolve", id |-> e]
  /\ UNCHANGED <<wire, delivered, data, cvars, lvars>>

\* The catch block, lines 49-54
CatchTrace ==
  <<Ev("setStatus", "", NumV(500)),
    Ev("resEnd", "", StrV(InternalServerError)),
    Ev("error", "requestHandler", UndefV)>>

\* CatchRes without `res.statusCode = 500`
CatchResNoStatus(r) == ResEnd(r, Utf8Encode(InternalServerError))

CatchRes(r) == ResEnd([r EXCEPT !.statusCode = 500], Utf8Encode(InternalServerError))

\* processMessage throws, or its promise rejects
PmReject(e) ==
  /\ sphase[e] = "awaiting"
  /\ strace' = [strace EXCEPT ![e] = (strace[e] \o <<Ev("rejected", "", UndefV)>>) \o CatchTrace]
  /\ res' = [res EXCEPT ![e] = CatchRes(res[e])]
  /\ sphase' = [sphase EXCEPT ![e] = "done"]
  /\ last' = [act |-> "pmReject", id |-> e]
  /\ UNCHANGED <<wire, delivered, data, cvars, lvars>>

ServerNext ==
  \E e \in Exch :
    \/ Accept(e)
    \/ ReqData(e)
    \/ ReqEnd(e)
    \/ ReqStreamError(e)
    \/ AppWrite(e)
    \/ AppEnd(e)
    \/ \E v \in ReturnValues(e) : PmResolve(e, v)
    \/ PmReject(e)

----------------------------------------------------------------------------
\* HTTPClient: the options of a request

\* An option that was not given is undefined
Undef == "undefined"
NoOptions == [hostname |-> Undef, port |-> Undef, path |-> Undef, protocol |-> Undef]

\* Option objects an application may give to the constructor or to send
OptionObjects ==
  [hostname : {Undef, "a.example", "b.example"},
   port : {Undef, "8080", "8443"},
   path : {Undef, "/x", "/y"},
   protocol : {Undef, "http:", "https:"}]

\* The few option objects used where the options are not the matter
ConstructorChoices ==
  {NoOptions,
   [hostname |-> "a.example", port |-> "8443", path |-> Undef, protocol |-> "https:"]}
RequestChoices ==
  {NoOptions,
   [hostname |-> "b.example", port |-> Undef, path |-> "/x", protocol |-> Undef]}

\* a || b
JsOr(a, b) == IF a \in {Undef, ""} THEN b ELSE a

\* Lines 169-176: the options of the request
ResolveOptions(ctor, req) ==
  [hostname |-> JsOr(ctor.hostname, req.hostname),
   port |-> JsOr(ctor.port, req.port),
   path |-> JsOr(JsOr(ctor.path, req.path), "/"),
   protocol |-> JsOr(JsOr(ctor.protocol, req.protocol), "http:")]

\* Line 178
SelectTransport(options) == IF options.protocol = "https:" THEN "https" ELSE "http"

----------------------------------------------------------------------------
\* HTTPClient: send and disconnect

CEv(op, tag, h, v) == [op |-> op, tag |-> tag, h |-> h, val |-> v]
BufV(b) == [type |-> "buffer", s |-> b]

\* 'hi'
RequestBodies == {UndefV, StrV(<<104, 105>>)}
StatusCodes == {200, 404}

\* The response streams a server may send, each with every chunking of it
ResponseStreams == UNION {Splits(b) : b \in SeqsUpTo(ByteAlphabet, MaxResBody)}

Pending == [state |-> "pending", cause |-> "", status |-> 0, data |-> <<>>]
\* resolve and reject act on a pending promise only
Settle(f, outcome) == IF f.state = "pending" THEN outcome ELSE f

Destroyed(c) == \E i \in 1..Len(sock[c]) : sock[c][i] = "destroy"

\* SendTrace with the send event after req.end()
SendTraceLate(options, body) ==
  (IF body.type = "undefined" THEN <<>> ELSE <<CEv("write", "", 0, body)>>)
  \o <<CEv("reqEnd", "", 0, UndefV), CEv("send", "", 0, body)>>

\* Lines 214-219: call('send', null, ...), req.write(requestBody), req.end()
SendTrace(options, body) ==
  <<CEv("send", "", 0, body)>>
  \o (IF body.type = "undefined" THEN <<>> ELSE <<CEv("write", "", 0, body)>>)
  \o <<CEv("reqEnd", "", 0, UndefV)>>

\* send(requestOptions, requestBody), lines 168-220, up to the return of the promise
Send(c, ro, body) ==
  /\ cphase[c] = "idle"
  /\ reqopts' = [reqopts EXCEPT ![c] = ro]
  /\ sendopts' = [sendopts EXCEPT ![c] = ResolveOptions(copts, ro)]
  /\ transport' = [transport EXCEPT ![c] = SelectTransport(ResolveOptions(copts, ro))]
  /\ responseData' = [responseData EXCEPT ![c] = <<>>]
  /\ fut' = [fut EXCEPT ![c] = Pending]
  /\ ctrace' = [ctrace EXCEPT ![c] = ctrace[c] \o SendTrace(ResolveOptions(copts, ro), body)]
  /\ cphase' = [cphase EXCEPT ![c] = "awaiting"]
  /\ last' = [act |-> "send", id |-> c]
  /\ UNCHANGED <<lvars, svars, copts, rwire, rdelivered, connection, sock, dtrace>>

\* The response callback, lines 181-185: the head of the response has arrived
Response(c, status) ==
  /\ cphase[c] = "awaiting"
  /\ connection' = c
  /\ responseData' = [responseData EXCEPT ![c] = <<>>]
  /\ ctrace' = [ctrace EXCEPT ![c] =
                  ctrace[c] \o <<CEv("response", "", c, NumV(status)),
                                 CEv("connect", "", c, UndefV)>>]
  /\ cphase' = [cphase EXCEPT ![c] = "streaming"]
  /\ last' = [act |-> "response", id |-> c]
  /\ UNCHANGED <<lvars, svars, copts, rwire, rdelivered, reqopts, sendopts, transport, fut, sock, dtrace>>

\* res.on('data', ...), lines 186-189
ResData(c) ==
  /\ cphase[c] = "streaming"
  /\ ~Destroyed(c)
  /\ rwire[c] # <<>>
  /\ responseData' = [responseData EXCEPT ![c] = AppendChunk(responseData[c], Head(rwire[c]))]
  /\ ctrace' = [ctrace EXCEPT ![c] = Append(ctrace[c], CEv("receive", "", c, BufV(Head(rwire[c]))))]
  /\ rdelivered' = [rdelivered EXCEPT ![c] = Append(rdelivered[c], Head(rwire[c]))]
  /\ rwire' = [rwire EXCEPT ![c] = Tail(rwire[c])]
  /\ last' = [act |-> "resData", id |-> c]
  /\ UNCHANGED <<lvars, svars, copts, cphase, reqopts, sendopts, transport, fut, connection, sock, dtrace>>

StatusOf(c) == ctrace[c][First(ctrace[c], "response")].val.s[1]

\* OnEndConnection leaving this.connection as it is
OnEndConnectionKept(c) == connection

\* Line 198
OnEndConnection(c) == 0

\* res.on('end', ...), lines 191-199
ResStreamEnd(c) ==
  /\ cphase[c] = "streaming"
  /\ ~Destroyed(c)
  /\ rwire[c] = <<>>
  /\ ctrace' = [ctrace EXCEPT ![c] =
                  ctrace[c] \o <<CEv("disconnect", "", c, UndefV),
                                 CEv("resolve", "", 0, StrV(responseData[c]))>>]
  /\ fut' = [fut EXCEPT ![c] =
               Settle(fut[c], [state |-> "resolved", cause |-> "", status |-> StatusOf(c),
                               data |-> responseData[c]])]
  /\ connection' = OnEndConnection(c)
  /\ cphase' = [cphase EXCEPT ![c] = "closed"]
  /\ last' = [act |-> "resEnd", id |-> c]
  /\ UNCHANGED <<lvars, svars, copts, rwire, rdelivered, reqopts, sendopts, transport, responseData, sock, dtrace>>

\* res.on('error', ...), lines 201-205: the response stream fails, of itself or
\* because the socket under it went away
ResStreamError(c) ==
  /\ cphase[c] \in {"streaming", "broken"}
  /\ ctrace' = [ctrace EXCEPT ![c] =
                  ctrace[c] \o <<CEv("error", "responseError", c, UndefV),
                                 CEv("reject", "resErr", 0, UndefV)>>]
  /\ fut' = [fut EXCEPT ![c] =
               Settle(fut[c], [state |-> "rejected", cause |-> "resErr", status |-> 0,
                               data |-> <<>>])]
  /\ connection' = 0
  /\ cphase' = [cphase EXCEPT ![c] = "closed"]
  /\ last' = [act |-> "resError", id |-> c]
  /\ UNCHANGED <<lvars, svars, copts, rwire, rdelivered, reqopts, sendopts, transport, responseData, sock, dtrace>>

\* RequestErrorTrace with the socket of the request as the handle of the event
RequestErrorTraceWithHandle(c) ==
  <<CEv("error", "requestError", c, UndefV), CEv("reject", "reqErr", 0, UndefV)>>

\* Lines 209-210
RequestErrorTrace(c) ==
  <<CEv("error", "requestError", 0, UndefV), CEv("reject", "reqErr", 0, UndefV)>>

\* req.on('error', ...), lines 208-212: the request fails before a response has
\* arrived, or the socket fails under a response that is streaming (the response
\* stream then fails in its turn)
ReqError(c) ==
  /\ \/ cphase[c] = "awaiting"
     \/ cphase[c] = "streaming" /\ ~Destroyed(c)
  /\ ctrace' = [ctrace EXCEPT ![c] = ctrace[c] \o RequestErrorTrace(c)]
  /\ fut' = [fut EXCEPT ![c] =
               Settle(fut[c], [state |-> "rejected", cause |-> "reqErr", status |-> 0,
                               data |-> <<>>])]
  /\ connection' = 0
  /\ cphase' = [cphase EXCEPT ![c] = IF cphase[c] = "awaiting" THEN "closed" ELSE "broken"]
  /\ last' = [act |-> "reqError", id |-> c]
  /\ UNCHANGED <<lvars, svars, copts, rwire, rdelivered, reqopts, sendopts, transport, responseData, sock, dtrace>>

DEv(op, h) == [op |-> op, h |-> h]
Invocations(tr) == Cardinality({i \in 1..Len(tr) : tr[i].op = "begin"})

\* DisconnectTrace with destroy() ahead of end()
DisconnectTraceDestroyFirst(h) ==
  IF h # 0
  THEN <<DEv("begin", h), DEv("destroy", h), DEv("end", h), DEv("emit", 0)>>
  ELSE <<DEv("begin", 0), DEv("emit", 0)>>

\* Lines 230-237 with h the handle held: what disconnect() does, in order (the
\* event is emitted with this.connection, which line 233 has set to null)
DisconnectTrace(h) ==
  IF h # 0
  THEN <<DEv("begin", h), DEv("end", h), DEv("destroy", h), DEv("emit", 0)>>
  ELSE <<DEv("begin", 0), DEv("emit", 0)>>

\* disconnect(), lines 228-238
Disconnect ==
  /\ Invocations(dtrace) < MaxDisconnects
  /\ dtrace' = dtrace \o DisconnectTrace(connection)
  /\ sock' = IF connection # 0
             THEN [sock EXCEPT ![connection] = sock[connection] \o <<"end", "destroy">>]
             ELSE sock
  /\ connection' = 0
  /\ last' = [act |-> "disconnect", id |-> connection]
  /\ UNCHANGED <<lvars, svars, copts, rwire, rdelivered, cphase, reqopts, sendopts, transport, responseData,
                 fut, ctrace>>

ClientNext ==
  \/ \E c \in Call :
       \/ \E ro \in RequestChoices, body \in RequestBodies : Send(c, ro, body)
       \/ \E status \in StatusCodes : Response(c, status)
       \/ ResData(c)
       \/ ResStreamEnd(c)
       \/ ResStreamError(c)
       \/ ReqError(c)
  \/ Disconnect

\* send on every pair of constructor options and request options
OptionsNext == \E ro \in OptionObjects, body \in RequestBodies : Send(1, ro, body)

----------------------------------------------------------------------------
\* HTTPServer: listen and shutdown

LEv(op, tag, k, cause) == [op |-> op, tag |-> tag, k |-> k, cause |-> cause]
NoFuture == [state |-> "none", cause |-> ""]

\* The listen calls made so far
Listens == {k \in Lst : lfut[k].state # "none"}

\* ListenCreates with createServer outside the try block
ListenCreatesAlways(sslv) == TRUE

\* Lines 62-83: a listener is created unless readFileSync throws
ListenCreates(sslv) == sslv # "unreadable"

\* Lines 62, 69, 79: https with config.ssl, http without
ListenerKind(sslv) == IF sslv = "none" THEN "http" ELSE "https"

\* Lines 73-76 and 86: the catch block rejects; `self.server.on` then throws on a
\* null this.server (the promise is rejected already, the TypeError is lost) or
\* puts the call's 'error' listener on the listener of an earlier call
ListenFailedTrace(k) ==
  <<LEv("inheritedListen", "", k, ""),
    LEv("reject", "", k, "readErr")>>
  \o (IF server = 0 THEN <<LEv("throw", "", k, "TypeError")>>
      ELSE <<LEv("onError", "", server, "")>>)

\* Lines 28-29, 69 or 79, and 86
ListenTrace(k) ==
  <<LEv("inheritedListen", "", k, ""),
    LEv("createServer", ListenerKind(ssl), k, ""),
    LEv("onError", "", k, "")>>

\* listen(port, address), lines 26-92
Listen(k) ==
  /\ k \in Lst /\ k = Cardinality(Listens) + 1
  /\ shut = "idle"
  /\ IF ListenCreates(ssl)
     THEN /\ lstate' = [lstate EXCEPT ![k] = "binding"]
          /\ lkind' = [lkind EXCEPT ![k] = ListenerKind(ssl)]
          /\ server' = k
          /\ errh' = [errh EXCEPT ![k] = <<k>>]
          /\ lfut' = [lfut EXCEPT ![k] = [state |-> "pending", cause |-> ""]]
          /\ ltrace' = [ltrace EXCEPT ![k] = ListenTrace(k)]
     ELSE /\ lfut' = [lfut EXCEPT ![k] = [state |-> "rejected", cause |-> "readErr"]]
          /\ errh' = IF server = 0 THEN errh
                     ELSE [errh EXCEPT ![server] = Append(errh[server], k)]
          /\ ltrace' = [ltrace EXCEPT ![k] = ListenFailedTrace(k)]
          /\ UNCHANGED <<lstate, lkind, server>>
  /\ last' = [act |-> "listen", id |-> k]
  /\ UNCHANGED <<svars, cvars, ssl, shut, via>>

\* The callback of server.listen, lines 69-72 and 79-82: the listener is bound
Bound(k) ==
  /\ lstate[k] = "binding"
  /\ lstate' = [lstate EXCEPT ![k] = "listening"]
  /\ lfut' = [lfut EXCEPT ![k] = Settle(lfut[k], [state |-> "resolved", cause |-> ""])]
  /\ ltrace' = [ltrace EXCEPT ![k] = @ \o <<LEv("bound", "", k, ""), LEv("resolve", "", k, "")>>]
  /\ last' = [act |-> "bound", id |-> k]
  /\ UNCHANGED <<svars, cvars, ssl, server, lkind, errh, shut, via>>

\* The error of listener k
ErrorOf(k) == IF lstate[k] = "binding" THEN "bindErr" ELSE "serverErr"

\* ErrorHandlerTrace with the reject alone
ErrorHandlerTraceNoEvent(j, cause) == <<LEv("reject", "", j, cause)>>

\* Lines 86-90, the 'error' listener of listen call j: call('error', err, 'listen')
\* and reject(err)
ErrorHandlerTrace(j, cause) ==
  <<LEv("error", "listen", j, cause), LEv("reject", "", j, cause)>>

InRange(hs) == {hs[i] : i \in 1..Len(hs)}

\* The listener emits 'error': it cannot bind, or it fails while it is listening
ListenerError(k) ==
  /\ lstate[k] \in {"binding", "listening"}
  /\ Cardinality({i \in 1..Len(ltrace[k]) : ltrace[k][i].op = "listenerError"})
       < MaxListenerErrors
  /\ lstate' = [lstate EXCEPT ![k] = IF lstate[k] = "binding" THEN "failed" ELSE "listening"]
  /\ lfut' = [j \in Lst |->
                IF j \in InRange(errh[k])
                THEN Settle(lfut[j], [state |-> "rejected", cause |-> ErrorOf(k)])
                ELSE lfut[j]]
  /\ ltrace' = [j \in 0..MaxListens |->
                  (ltrace[j] \o (IF j = k THEN <<LEv("listenerError", "", k, ErrorOf(k))>>
                                 ELSE <<>>))
                  \o (IF j \in InRange(errh[k]) THEN ErrorHandlerTrace(j, ErrorOf(k))
                      ELSE <<>>)]
  /\ last' = [act |-> "listenerError", id |-> k]
  /\ UNCHANGED <<svars, cvars, ssl, server, lkind, errh, shut, via>>

\* A peer connects to a listener that is accepting
Arrive(e) ==
  /\ sphase[e] = "waiting"
  /\ \E k \in Lst :
       /\ lstate[k] = "listening"
       /\ via' = [via EXCEPT ![e] = k]
  /\ sphase' = [sphase EXCEPT ![e] = "arriving"]
  /\ last' = [act |-> "arrive", id |-> e]
  /\ UNCHANGED <<wire, delivered, data, res, strace, cvars, ssl, server, lstate, lkind,
                 errh, lfut, shut, ltrace>>

\* The connection of exchange e is open: the request is not yet answered in full
\* and the request stream has not failed
ConnOpen(e) ==
  \/ sphase[e] \in {"arriving", "reading", "awaiting"}
  \/ sphase[e] = "done" /\ ~res[e].finished

\* shutdown(), lines 94-107, called once every listen() has settled: the inherited
\* shutdown, then server.close(callback) when this.server is set.  close() on a
\* listener that is not listening calls back at once (with an error).
Shutdown ==
  /\ shut = "idle"
  /\ \A k \in Lst : lfut[k].state # "pending"
  /\ IF server # 0 /\ lstate[server] = "listening"
     THEN /\ lstate' = [lstate EXCEPT ![server] = "closing"]
          /\ shut' = "closing"
          /\ ltrace' = [ltrace EXCEPT ![0] = <<LEv("inheritedShutdown", "", 0, ""),
                                                LEv("close", "", server, "")>>]
     ELSE /\ shut' = "resolved"
          /\ ltrace' = [ltrace EXCEPT ![0] =
                          <<LEv("inheritedShutdown", "", 0, "")>>
                          \o (IF server # 0 THEN <<LEv("close", "", server, "")>> ELSE <<>>)
                          \o <<LEv("shutdownResolved", "", server, "")>>]
          /\ UNCHANGED lstate
  /\ last' = [act |-> "shutdown", id |-> server]
  /\ UNCHANGED <<svars, cvars, ssl, server, lkind, errh, lfut, via>>

\* The callback of server.close, lines 99-102: the listener has stopped listening
\* and every connection it accepted has ended
CloseDone ==
  /\ shut = "closing"
  /\ lstate[server] = "closing"
  /\ \A e \in Exch : via[e] = server => ~ConnOpen(e)
  /\ lstate' = [lstate EXCEPT ![server] = "closed"]
  /\ shut' = "resolved"
  /\ ltrace' = [ltrace EXCEPT ![0] = Append(@, LEv("shutdownResolved", "", server, ""))]
  /\ last' = [act |-> "closeDone", id |-> server]
  /\ UNCHANGED <<svars, cvars, ssl, server, lkind, errh, lfut, via>>

LifecycleNext ==
  \/ \E k \in Lst : Listen(k) \/ Bound(k) \/ ListenerError(k)
  \/ \E e \in Exch : Arrive(e)
  \/ Shutdown
  \/ CloseDone
  \/ \E e \in Exch :
       \/ Accept(e)
       \/ ReqEnd(e)
       \/ \E v \in {UndefV, StrV(Pong)} : PmResolve(e, v)
       \/ PmReject(e)

\* A server on which listen was never called
NotListening ==
  /\ server = 0
  /\ lstate = [k \in Lst |-> "none"]
  /\ lkind = [k \in Lst |-> "none"]
  /\ errh = [k \in Lst |-> <<>>]
  /\ lfut = [k \in Lst |-> NoFuture]
  /\ shut = "idle"
  /\ ltrace = [k \in 0..MaxListens |-> <<>>]
  /\ via = [e \in Exch |-> 0]

\* A server without config.ssl whose first listen call has resolved, with the
\* connections of the arriving exchanges accepted
ListeningPlain ==
  /\ ssl = "none"
  /\ server = 1
  /\ lstate = [k \in Lst |-> IF k = 1 THEN "listening" ELSE "none"]
  /\ lkind = [k \in Lst |-> IF k = 1 THEN "http" ELSE "none"]
  /\ errh = [k \in Lst |-> IF k = 1 THEN <<1>> ELSE <<>>]
  /\ lfut = [k \in Lst |-> IF k = 1 THEN [state |-> "resolved", cause |-> ""] ELSE NoFuture]
  /\ shut = "idle"
  /\ ltrace = [k \in 0..MaxListens |->
                IF k = 1 THEN <<LEv("inheritedListen", "", 1, ""),
                                LEv("createServer", "http", 1, ""),
                                LEv("onError", "", 1, ""), LEv("bound", "", 1, ""),
                                LEv("resolve", "", 1, "")>>
                ELSE <<>>]
  /\ via = [e \in Exch |-> IF sphase[e] = "arriving" THEN 1 ELSE 0]

----------------------------------------------------------------------------
\* Initial states

ServerIdle ==
  /\ ssl = "none"
  /\ NotListening
  /\ wire = [e \in Exch |-> <<>>]
  /\ delivered = [e \in Exch |-> <<>>]
  /\ data = [e \in Exch |-> <<>>]
  /\ sphase = [e \in Exch |-> "none"]
  /\ res = [e \in Exch |-> NewResponse]
  /\ strace = [e \in Exch |-> <<>>]

ClientCalls(usable) ==
  /\ rdelivered = [c \in Call |-> <<>>]
  /\ cphase = [c \in Call |-> IF c \in usable THEN "idle" ELSE "unused"]
  /\ reqopts = [c \in Call |-> NoOptions]
  /\ sendopts = [c \in Call |-> NoOptions]
  /\ transport = [c \in Call |-> "none"]
  /\ responseData = [c \in Call |-> <<>>]
  /\ fut = [c \in Call |-> [state |-> "none", cause |-> "", status |-> 0, data |-> <<>>]]
  /\ ctrace = [c \in Call |-> <<>>]
  /\ connection = 0
  /\ sock = [c \in Call |-> <<>>]
  /\ dtrace = <<>>

ClientIdle ==
  /\ copts = NoOptions
  /\ rwire = [c \in Call |-> <<>>]
  /\ ClientCalls({})

\* One client, one call to make, any response stream
ClientInit ==
  /\ ServerIdle
  /\ copts \in ConstructorChoices
  /\ \E w \in ResponseStreams : rwire = [c \in Call |-> IF c = 1 THEN w ELSE <<>>]
  /\ ClientCalls({1})
  /\ last = [act |-> "init", id |-> 0]

ClientSpec == ClientInit /\ [][ClientNext]_vars

\* One client with any constructor options, one call to make
OptionsInit ==
  /\ ServerIdle
  /\ copts \in OptionObjects
  /\ rwire = [c \in Call |-> <<>>]
  /\ ClientCalls({1})
  /\ last = [act |-> "init", id |-> 0]

OptionsSpec == OptionsInit /\ [][OptionsNext]_vars

\* One inbound exchange, with any request stream
Init ==
  /\ \E w \in RequestStreams : wire = [e \in Exch |-> IF e = 1 THEN w ELSE <<>>]
  /\ delivered = [e \in Exch |-> <<>>]
  /\ data = [e \in Exch |-> <<>>]
  /\ sphase = [e \in Exch |-> IF e = 1 THEN "arriving" ELSE "none"]
  /\ res = [e \in Exch |-> NewResponse]
  /\ strace = [e \in Exch |-> <<>>]
  /\ ListeningPlain
  /\ ClientIdle
  /\ last = [act |-> "init", id |-> 0]

Spec == Init /\ [][ServerNext]_vars

\* A server after init(config), with or without config.ssl, and one peer that
\* will connect once a listener accepts and send a request without a body
LifecycleInit ==
  /\ ssl \in {"none", "readable", "unreadable"}
  /\ NotListening
  /\ wire = [e \in Exch |-> <<>>]
  /\ delivered = [e \in Exch |-> <<>>]
  /\ data = [e \in Exch |-> <<>>]
  /\ sphase = [e \in Exch |-> IF e = 1 THEN "waiting" ELSE "none"]
  /\ res = [e \in Exch |-> NewResponse]
  /\ strace = [e \in Exch |-> <<>>]
  /\ ClientIdle
  /\ last = [act |-> "init", id |-> 0]

LifecycleSpec == LifecycleInit /\ [][LifecycleNext]_vars

----------------------------------------------------------------------------
\* Properties of HTTPServer's per-request handling

Untouched(tr) == "appWrite" \notin Ops(tr) /\ "appEnd" \notin Ops(tr)
CountError(tr, tag) ==
  Cardinality({i \in 1..Len(tr) : tr[i].op = "error" /\ tr[i].tag = tag})

\* The response as the application's own writes left it
RECURSIVE AppResponse(_)
AppResponse(tr) ==
  IF tr = <<>> THEN NewResponse
  ELSE LET r == AppResponse(SubSeq(tr, 1, Len(tr) - 1))
           x == tr[Len(tr)]
       IN IF x.op = "appWrite" THEN ResWrite(r, Utf8Encode(x.val.s))
          ELSE IF x.op = "appEnd" THEN ResEnd(r, <<>>)
          ELSE r

\* C1: in every exchange connect, receive, the call of processMessage and respond
\* happen at most once and in that order, none of them before the request stream
\* has ended (every chunk delivered), and respond only after processMessage's
\* promise has resolved.
C1_ServerEventOrder ==
  \A e \in Exch :
    LET tr == strace[e] IN
      /\ \A op \in {"end", "connect", "receive", "processMessage", "respond"} :
           Count(tr, op) <= 1
      /\ "end" \in Ops(tr) => wire[e] = <<>> /\ sphase[e] \notin {"arriving", "reading"}
      /\ "connect" \in Ops(tr) => Before(tr, "end", "connect")
      /\ "receive" \in Ops(tr) => Before(tr, "connect", "receive")
      /\ "processMessage" \in Ops(tr) => Before(tr, "receive", "processMessage")
      /\ "respond" \in Ops(tr) =>
           Before(tr, "processMessage", "resolved") /\ Before(tr, "resolved", "respond")

\* An exchange of two chunks that went through to respond
C1_Witness ==
  /\ Len(delivered[1]) >= 2
  /\ sphase[1] = "done"
  /\ "respond" \in Ops(strace[1])

\* A Buffer that is the UTF-8 form of a string
WellFormedText(b) == Utf8Encode(BufferToString(b)) = b

\* C2: when processMessage returns the body it was given and leaves the response
\* alone, the response body is the concatenation of the request chunks in arrival
\* order, and the response is ended.  Stated for the bodies that are well-formed
\* UTF-8 text, in every chunking: the bodies a string can stand for.
C2_EchoRoundTrip ==
  \A e \in Exch :
    LET tr == strace[e] IN
      (/\ sphase[e] = "done"
       /\ WellFormedText(Flatten(delivered[e]))
       /\ "resolved" \in Ops(tr)
       /\ tr[First(tr, "resolved")].val = StrV(data[e])
       /\ Untouched(tr))
      => res[e].finished /\ res[e].body = Flatten(delivered[e])

\* C3: what the binding does once processMessage has resolved is decided by the
\* value alone: a string is announced with respond, written as the body and the
\* response ended; another defined value is announced with respond and the
\* response left as the application left it; undefined brings no respond and
\* leaves the response as the application left it.
C3_ActionByReturnValue ==
  \A e \in Exch :
    LET tr == strace[e] IN
      "resolved" \in Ops(tr) =>
        LET i == First(tr, "resolved")
            v == tr[i].val
            pre == SubSeq(tr, 1, i - 1)
            post == SubSeq(tr, i + 1, Len(tr))
        IN /\ v.type = "string" =>
                /\ post = <<Ev("respond", "", v), Ev("resEnd", "", v)>>
                /\ res[e] = ResEnd(AppResponse(pre), Utf8Encode(v.s))
           /\ v.type \notin {"string", "undefined"} =>
                /\ post = <<Ev("respond", "", v)>>
                /\ res[e] = AppResponse(pre)
           /\ v.type = "undefined" =>
                /\ post = <<>>
                /\ res[e] = AppResponse(pre)

\* Exchanges resolved with a string on an untouched response (written and ended)
\* and with undefined (nothing written, nothing ended)
C3_Witness ==
  /\ sphase[1] = "done"
  /\ "resolved" \in Ops(strace[1])
  /\ \/ /\ strace[1][First(strace[1], "resolved")].val = StrV(Pong)
        /\ res[1].finished /\ res[1].body = Utf8Encode(Pong)
     \/ /\ strace[1][First(strace[1], "resolved")].val = UndefV
        /\ ~res[1].finished /\ res[1].body = <<>>

C3_WitnessString ==
  C3_Witness /\ strace[1][First(strace[1], "resolved")].val = StrV(Pong)

\* C4, as the claim has it: whenever processMessage throws, the exchange is
\* answered with status 500 and the body 'Internal Server Error', with exactly one
\* requestHandler error event and no respond event.
C4_ThrowAnswered500 ==
  \A e \in Exch :
    "rejected" \in Ops(strace[e]) =>
      /\ res[e].wireStatus = 500
      /\ res[e].body = Utf8Encode(InternalServerError)
      /\ res[e].finished
      /\ CountError(strace[e], "requestHandler") = 1
      /\ "respond" \notin Ops(strace[e])

\* C4, amended: whenever processMessage throws, exactly one requestHandler error
\* event and no respond event are emitted, the binding sets status 500 and ends
\* the response with 'Internal Server Error', and the exchange is answered with
\* status 500 and that body when the application had sent nothing of the response
\* before it threw.
C4_ThrowAnswered500IfUnsent ==
  \A e \in Exch :
    LET tr == strace[e] IN
      "rejected" \in Ops(tr) =>
        /\ CountError(tr, "requestHandler") = 1
        /\ CountError(tr, "requestError") = 0
        /\ "respond" \notin Ops(tr)
        /\ SubSeq(tr, First(tr, "rejected") + 1, Len(tr)) =
             <<Ev("setStatus", "", NumV(500)),
               Ev("resEnd", "", StrV(InternalServerError)),
               Ev("error", "requestHandler", UndefV)>>
        /\ Untouched(tr) =>
             /\ res[e].wireStatus = 500
             /\ res[e].body = Utf8Encode(InternalServerError)
             /\ res[e].finished

\* processMessage threw on a response nobody had written to
C4_Witness ==
  /\ "rejected" \in Ops(strace[1])
  /\ Untouched(strace[1])
  /\ res[1].wireStatus = 500

\* C5: when the application has written and ended the response before
\* processMessage throws, the binding changes no status and writes nothing more.
C5_NoWriteOnceSent ==
  \A e \in Exch :
    LET tr == strace[e] IN
      ("rejected" \in Ops(tr) /\ Before(tr, "appEnd", "rejected")) =>
        /\ "setStatus" \notin Ops(tr)
        /\ "resEnd" \notin Ops(tr)
        /\ res[e].statusCode = AppResponse(tr).statusCode

----------------------------------------------------------------------------
\* Properties of HTTPClient

Places(tr, op) == {i \in 1..Len(tr) : tr[i].op = op}
IsReceive(x) == x.op = "receive"
RECURSIVE Vals(_)
Vals(tr) == IF tr = <<>> THEN <<>> ELSE <<Head(tr).val.s>> \o Vals(Tail(tr))
\* The string a sequence of chunks adds up to, each chunk converted on its own
RECURSIVE Accumulated(_)
Accumulated(chunks) ==
  IF chunks = <<>> THEN <<>>
  ELSE AppendChunk(Accumulated(SubSeq(chunks, 1, Len(chunks) - 1)), chunks[Len(chunks)])

\* C6: in a call whose future resolves, send is emitted once, first, with a null
\* handle, before the body is written and the request ended; connect is emitted
\* once, with the call's handle, before any receive; there is one receive per
\* chunk, in arrival order, with the handle; disconnect is emitted once, with the
\* handle, after the last receive and right before the future resolves.
C6_ClientEventOrder ==
  \A c \in Call :
    LET tr == ctrace[c] IN
      fut[c].state = "resolved" =>
        /\ \A op \in {"send", "connect", "disconnect", "resolve", "reqEnd"} : Count(tr, op) = 1
        /\ tr[1].op = "send" /\ tr[1].h = 0
        /\ \A i \in Places(tr, "write") : First(tr, "send") < i /\ i < First(tr, "reqEnd")
        /\ Before(tr, "send", "reqEnd")
        /\ Before(tr, "send", "connect")
        /\ \A i \in Places(tr, "receive") :
             /\ First(tr, "connect") < i
             /\ i < First(tr, "disconnect")
             /\ tr[i].h = c
        /\ Vals(SelectSeq(tr, IsReceive)) = rdelivered[c]
        /\ tr[First(tr, "connect")].h = c
        /\ tr[First(tr, "disconnect")].h = c
        /\ First(tr, "resolve") = First(tr, "disconnect") + 1
        /\ First(tr, "resolve") = Len(tr)
        /\ "error" \notin Ops(tr)

\* A call with a request body and a response of two chunks has resolved
C6_Witness ==
  /\ fut[1].state = "resolved"
  /\ Len(rdelivered[1]) = 2
  /\ "write" \in Ops(ctrace[1])

\* The value the claim gives an option: the call-time value when one is supplied,
\* otherwise the constructor's, otherwise the default
CallTimeFirst(req, ctor, dflt) ==
  IF req # Undef THEN req ELSE IF ctor # Undef THEN ctor ELSE dflt

\* C7: hostname, port, path and protocol of a request are the call-time value when
\* one is supplied, otherwise the constructor's, otherwise '/' for the path and
\* 'http:' for the protocol; https is used exactly when the protocol is 'https:'.
C7_CallTimeOptionsWin ==
  \A c \in Call :
    cphase[c] \notin {"unused", "idle"} =>
      /\ sendopts[c].hostname = CallTimeFirst(reqopts[c].hostname, copts.hostname, Undef)
      /\ sendopts[c].port = CallTimeFirst(reqopts[c].port, copts.port, Undef)
      /\ sendopts[c].path = CallTimeFirst(reqopts[c].path, copts.path, "/")
      /\ sendopts[c].protocol = CallTimeFirst(reqopts[c].protocol, copts.protocol, "http:")
      /\ (transport[c] = "https") <=> (sendopts[c].protocol = "https:")

\* The request of call c failed before any response had arrived
FailedBeforeResponse(c) ==
  \E i \in Places(ctrace[c], "error") :
    /\ ctrace[c][i].tag = "requestError"
    /\ \A j \in 1..(i - 1) : ctrace[c][j].op # "response"

\* C8: a call whose request fails before any response arrives has its future
\* rejected with the request's error, emits one error event, tagged requestError
\* and with a null handle, and never has a response, a connect, a receive or a
\* disconnect event.
C8_RequestErrorBeforeResponse ==
  \A c \in Call :
    LET tr == ctrace[c] IN
      FailedBeforeResponse(c) =>
        /\ fut[c].state = "rejected"
        /\ fut[c].cause = "reqErr"
        /\ Count(tr, "error") = 1
        /\ \A i \in Places(tr, "error") : tr[i].tag = "requestError" /\ tr[i].h = 0
        /\ Ops(tr) \cap {"response", "connect", "receive", "disconnect", "resolve"} = {}

\* A request has failed before its response, and disconnect() has run as well
C8_Witness ==
  /\ FailedBeforeResponse(1)
  /\ cphase[1] = "closed"
  /\ dtrace # <<>>

\* C9: right after the handler of a stream end, of a response error or of a
\* request error, this.connection is null; the stream end has resolved the future
\* with the status and the accumulated body, the response error has emitted a
\* responseError event and left the future rejected (with its own error unless a
\* request error had rejected it before), the request error has left the future
\* rejected; and while no other call is streaming, a settled future goes with a
\* null this.connection.
C9_TerminalPathsClearHandle ==
  /\ \A c \in Call :
       LET tr == ctrace[c] IN
         /\ (last.act = "resEnd" /\ last.id = c) =>
              /\ connection = 0
              /\ fut[c] = [state |-> "resolved", cause |-> "", status |-> StatusOf(c),
                           data |-> Accumulated(rdelivered[c])]
         /\ (last.act = "resError" /\ last.id = c) =>
              /\ connection = 0
              /\ fut[c].state = "rejected"
              /\ tr[Len(tr) - 1] = CEv("error", "responseError", c, UndefV)
              /\ Count(tr, "error") = 1 => fut[c].cause = "resErr"
         /\ (last.act = "reqError" /\ last.id = c) =>
              /\ connection = 0
              /\ fut[c].state = "rejected"
              /\ fut[c].cause = "reqErr"
         /\ (/\ fut[c].state \in {"resolved", "rejected"}
             /\ \A d \in Call \ {c} : cphase[d] # "streaming") => connection = 0
  /\ \A c \in Call : fut[c].state = "pending" => cphase[c] \in {"awaiting", "streaming"}

\* A stream of two chunks has just ended, and the future is resolved
C9_Witness ==
  /\ last = [act |-> "resEnd", id |-> 1]
  /\ Len(rdelivered[1]) = 2
  /\ fut[1].state = "resolved"

\* The sequence of "end" and "destroy" that n disconnect() put on a socket
RECURSIVE EndDestroy(_)
EndDestroy(n) == IF n = 0 THEN <<>> ELSE <<"end", "destroy">> \o EndDestroy(n - 1)

\* C10: disconnect() can run in every state of the client; each invocation emits
\* one disconnect event, with a null handle, and leaves this.connection null; with
\* a handle held that handle is ended, then destroyed, and then the event is
\* emitted; with none held no handle is touched.
C10_DisconnectAlwaysSafe ==
  /\ Invocations(dtrace) < MaxDisconnects => ENABLED Disconnect
  /\ last.act = "disconnect" => connection = 0
  /\ dtrace # <<>> => dtrace[1].op = "begin"
  /\ \A i \in Places(dtrace, "begin") :
       LET h == dtrace[i].h
           n == IF h # 0 THEN 4 ELSE 2
       IN /\ i + n - 1 <= Len(dtrace)
          /\ SubSeq(dtrace, i, i + n - 1) =
               IF h # 0
               THEN <<DEv("begin", h), DEv("end", h), DEv("destroy", h), DEv("emit", 0)>>
               ELSE <<DEv("begin", 0), DEv("emit", 0)>>
          /\ i + n <= Len(dtrace) => dtrace[i + n].op = "begin"
  /\ \A c \in Call :
       sock[c] = EndDestroy(Cardinality({i \in Places(dtrace, "begin") : dtrace[i].h = c}))

\* disconnect() has run with no handle held, before any call, and again with the
\* handle of a call that was streaming
C10_Witness ==
  /\ Invocations(dtrace) = 2
  /\ dtrace[1] = DEv("begin", 0)
  /\ dtrace[3] = DEv("begin", 1)
  /\ ctrace[1][1].op = "send"
  /\ cphase[1] = "closed"

----------------------------------------------------------------------------
\* Two calls on one HTTPClient

\* Streams for the runs with two exchanges or two calls at once: no chunk, one
\* chunk, U+00E9 in one chunk and cut in two
SampleStreams == {<<>>, <<<<97>>>>, <<<<195, 169>>>>, <<<<195>>, <<169>>>>}

ConcClientInit ==
  /\ ServerIdle
  /\ copts = NoOptions
  /\ \E w1 \in SampleStreams, w2 \in SampleStreams :
       rwire = [c \in Call |-> IF c = 1 THEN w1 ELSE IF c = 2 THEN w2 ELSE <<>>]
  /\ ClientCalls({1, 2})
  /\ last = [act |-> "init", id |-> 0]

ConcClientNext ==
  \/ \E c \in Call :
       \/ Send(c, NoOptions, UndefV)
       \/ Response(c, 200)
       \/ ResData(c)
       \/ ResStreamEnd(c)
       \/ ResStreamError(c)
       \/ ReqError(c)
  \/ Disconnect

ConcClientSpec == ConcClientInit /\ [][ConcClientNext]_vars

\* C11: of two calls on one client that have both resolved, each has its own
\* events in the order send, connect, receive*, disconnect, each event with the
\* handle of its own call, and each has resolved with a body that is the
\* concatenation of its own chunks in arrival order.  Stated for responses that
\* are well-formed UTF-8 text.
C11_ConcurrentCallsIndependent ==
  (\A c \in {1, 2} : fut[c].state = "resolved"
                     /\ WellFormedText(Flatten(rdelivered[c]))) =>
    /\ C6_ClientEventOrder
    /\ \A c \in {1, 2} : Utf8Encode(fut[c].data) = Flatten(rdelivered[c])

\* C12: while a call is streaming and its socket has not been destroyed, the
\* binding holds the handle of a streaming call, and a disconnect() leaves no
\* streaming call with its handle neither ended nor destroyed.
C12_HandlePerCall ==
  /\ (\E c \in Call : cphase[c] = "streaming" /\ ~Destroyed(c)) =>
       (connection # 0 /\ cphase[connection] = "streaming")
  /\ last.act = "disconnect" => \A c \in Call : cphase[c] = "streaming" => Destroyed(c)

----------------------------------------------------------------------------
\* HTTPServer: listen and shutdown

LPlaces(k, op) == {i \in 1..Len(ltrace[k]) : ltrace[k][i].op = op}

\* C13: with config.ssl set and the key or certificate unreadable, the future of
\* every listen call is rejected with the read error (and so never resolves), the
\* call creates no listener and this.server does not refer to one; without
\* config.ssl the listener is an http one and the future is resolved only after
\* the listener has reported that it is bound.
C13_ListenOutcome ==
  \A k \in Listens :
    /\ ssl = "unreadable" =>
         /\ lfut[k] = [state |-> "rejected", cause |-> "readErr"]
         /\ lstate[k] = "none" /\ lkind[k] = "none"
         /\ server # k
    /\ ssl = "none" =>
         /\ lkind[k] = "http"
         /\ LPlaces(k, "createServer") # {}
         /\ lfut[k].state = "resolved" =>
              /\ lstate[k] \in {"listening", "closing", "closed"}
              /\ \E i \in LPlaces(k, "bound") : \A j \in LPlaces(k, "resolve") : i < j

C13_Witness ==
  /\ ssl = "unreadable"
  /\ Listens = {1, 2}
  /\ last.act = "listen"
  /\ lfut[2].state = "rejected"

\* C14: a listener error before the listen future has resolved rejects the future
\* with that error; a listener error after it has resolved is followed by an error
\* event tagged 'listen' carrying the error, and the future stays resolved.
C14_ListenerErrorOutcome ==
  \A k \in Listens : \A i \in LPlaces(k, "listenerError") :
    /\ i + 1 <= Len(ltrace[k])
    /\ ltrace[k][i + 1] = LEv("error", "listen", k, ltrace[k][i].cause)
    /\ IF \E j \in LPlaces(k, "resolve") : j < i
       THEN lfut[k] = [state |-> "resolved", cause |-> ""]
       ELSE lfut[k] = [state |-> "rejected", cause |-> ltrace[k][i].cause]

C14_Witness ==
  \E k \in Listens :
    /\ lfut[k].state = "resolved"
    /\ last = [act |-> "listenerError", id |-> k]
    /\ \E i \in LPlaces(k, "listenerError") : \E j \in LPlaces(k, "resolve") : j < i

\* C15: shutdown() runs the inherited shutdown and then closes the listener; its
\* future is resolved at once when no listener was opened; and once the listener
\* has stopped accepting, the future can resolve whatever the exchanges in
\* progress do: an exchange held up in processMessage does not keep it pending.
C15_ShutdownIndependentOfExchanges ==
  /\ shut # "idle" =>
       /\ ltrace[0][1].op = "inheritedShutdown"
       /\ server # 0 => ltrace[0][2] = LEv("close", "", server, "")
       /\ server = 0 => shut = "resolved"
  /\ (/\ shut = "closing"
      /\ \A e \in Exch : ConnOpen(e) => sphase[e] = "awaiting") => ENABLED CloseDone

TagOf(cause) ==
  IF cause = "reqErr" THEN "requestError"
  ELSE IF cause = "resErr" THEN "responseError"
  ELSE "listen"

\* C16: a rejected listen or send future comes with an error event that carries
\* the error of the rejection and the tag of its phase.
C16_ErrorsDualReported ==
  /\ \A k \in Listens :
       lfut[k].state = "rejected" =>
         \E i \in LPlaces(k, "error") : ltrace[k][i].cause = lfut[k].cause
  /\ \A c \in Call :
       fut[c].state = "rejected" =>
         \E i \in 1..Len(ctrace[c]) :
           ctrace[c][i].op = "error" /\ ctrace[c][i].tag = TagOf(fut[c].cause)

----------------------------------------------------------------------------
\* Release of the handles

\* C17: every server exchange the binding is through with (the 'end' listener has
\* run to its end, or the request stream has failed) has had its response ended
\* exactly once, and no client socket has had more than one of end and destroy.
C17_ExactlyOneTerminalAction ==
  /\ \A e \in Exch :
       sphase[e] \in {"done", "aborted"} =>
         Count(strace[e], "resEnd") + Count(strace[e], "appEnd") = 1
  /\ \A c \in Call : Len(sock[c]) <= 1

\* C19: an exchange whose request stream failed has one error event tagged
\* 'requestError' and none tagged 'requestHandler', its response is as it was
\* created (nothing written, status unchanged, not ended), and it has no connect,
\* receive, respond or call of processMessage.
C19_StreamErrorOnlyReports ==
  \A e \in Exch :
    LET tr == strace[e] IN
      /\ CountError(tr, "requestError") > 0 => sphase[e] = "aborted"
      /\ sphase[e] = "aborted" =>
           /\ CountError(tr, "requestError") = 1
           /\ CountError(tr, "requestHandler") = 0
           /\ Ops(tr) \cap {"end", "connect", "receive", "processMessage", "respond",
                            "setStatus", "resEnd", "appWrite", "appEnd"} = {}
           /\ res[e] = NewResponse

C19_Witness ==
  \E e \in Exch :
    /\ sphase[e] = "aborted"
    /\ last = [act |-> "reqStreamError", id |-> e]
    /\ Len(delivered[e]) = 2
    /\ wire[e] # <<>>

----------------------------------------------------------------------------
\* Two exchanges on one HTTPServer

\* Two inbound exchanges at once, each with one of the sample streams
ConcInit ==
  /\ \E w1 \in SampleStreams, w2 \in SampleStreams :
       wire = [e \in Exch |-> IF e = 1 THEN w1 ELSE IF e = 2 THEN w2 ELSE <<>>]
  /\ delivered = [e \in Exch |-> <<>>]
  /\ data = [e \in Exch |-> <<>>]
  /\ sphase = [e \in Exch |-> IF e \in {1, 2} THEN "arriving" ELSE "none"]
  /\ res = [e \in Exch |-> NewResponse]
  /\ strace = [e \in Exch |-> <<>>]
  /\ ListeningPlain
  /\ ClientIdle
  /\ last = [act |-> "init", id |-> 0]

ConcNext == ServerNext

ConcSpec == ConcInit /\ [][ConcNext]_vars

\* What the binding did in the exchange after it called processMessage
AfterCall(tr) == {tr[i].op : i \in (First(tr, "processMessage") + 1)..Len(tr)}

\* C18: for an exchange that waits for processMessage's promise, the binding has
\* emitted connect and receive and, since the call, no respond and no error event,
\* and has set no status and written or ended nothing: the response is as the
\* application's own writes left it; and the other exchanges can go on.
C18_UnsettledExchangeHangs ==
  \A e \in Exch :
    sphase[e] = "awaiting" =>
      /\ {"connect", "receive", "processMessage"} \subseteq Ops(strace[e])
      /\ AfterCall(strace[e]) \subseteq {"appWrite", "appEnd"}
      /\ res[e] = AppResponse(strace[e])
      /\ \A f \in Exch \ {e} :
           /\ sphase[f] = "reading" /\ wire[f] # <<>> => ENABLED ReqData(f)
           /\ sphase[f] = "reading" /\ wire[f] = <<>> => ENABLED ReqEnd(f)
           /\ sphase[f] = "awaiting" => ENABLED PmResolve(f, StrV(data[f]))

\* Exchange 1 still waits while exchange 2, which arrived with it, was answered
C18_Witness ==
  /\ sphase[1] = "awaiting"
  /\ sphase[2] = "done"
  /\ "respond" \in Ops(strace[2])
  /\ res[2].finished
  /\ last = [act |-> "pmResolve", id |-> 2]

\* The response as the trace of its own exchange makes it
RECURSIVE OwnResponse(_)
OwnResponse(tr) ==
  IF tr = <<>> THEN NewResponse
  ELSE LET r == OwnResponse(SubSeq(tr, 1, Len(tr) - 1))
           x == tr[Len(tr)]
       IN IF x.op = "appWrite" THEN ResWrite(r, Utf8Encode(x.val.s))
          ELSE IF x.op = "appEnd" THEN ResEnd(r, <<>>)
          ELSE IF x.op = "setStatus" THEN [r EXCEPT !.statusCode = x.val.s[1]]
          ELSE IF x.op = "resEnd" THEN ResEnd(r, Utf8Encode(x.val.s))
          ELSE r

\* C20: with two exchanges in any interleaving, the body given to receive and to
\* processMessage in an exchange is the concatenation of the chunks of that
\* exchange in arrival order, and each response holds what its own exchange put
\* into it.  Stated for the bodies that are well-formed UTF-8 text.
C20_ExchangesIsolated ==
  \A e \in Exch :
    LET tr == strace[e] IN
      /\ res[e] = OwnResponse(tr)
      /\ ("receive" \in Ops(tr) /\ WellFormedText(Flatten(delivered[e]))) =>
           /\ Utf8Encode(tr[First(tr, "receive")].val.s) = Flatten(delivered[e])
           /\ tr[First(tr, "processMessage")].val = tr[First(tr, "receive")].val

============================================================================
